---- MODULE Spec2Model ----
(***************************************************************************)
(* Model of run_mirror_sync.py: the Trello card mirror / reverse-sync job. *)
(*                                                                         *)
(* Text is modelled as a sequence of tokens.  A token is one character     *)
(* Ch(c), the mirror marker MK (MIRROR_MARKER, a fixed string that plain   *)
(* characters of the model never spell) or JS(o), the one-line text that   *)
(* json.dumps produces for the object o.  json.dumps escapes line breaks   *)
(* and every non-ASCII character, so a JS token holds neither a line break *)
(* nor the marker, whatever strings o holds.                               *)
(* Names that the code compares with .lower() are sequences of characters. *)
(***************************************************************************)
EXTENDS Integers, Sequences, FiniteSets, TLC

VARIABLES
    src,            \* the source cards, by id, as the board service holds them
    master,         \* the cards of each master list, in list order
    nextId,         \* the number of cards created so far on the master board
    pc,             \* where main() is
    li,             \* which master list / source board the current phase is at
    cards,          \* the local list of cards still to be visited by the loop
    boardLabels,    \* process_board's board_labels
    synced_count,   \* sync_changes_from_master's counter
    mirrored_count, \* process_board's counter
    total_mirrored, \* main's counter
    runs,           \* completed runs
    fails,          \* calls the board service has failed so far
    down,           \* the board service is down: it answers no call
    humanOps,       \* edits people have made so far
    edits,          \* history: edits made on replicas since they were mirrored
    origin,         \* history: <<replica id, id of the card it was copied from>>
    apiLog,         \* history: the calls the last step issued, in order
    phaseLog,       \* history: the kinds of calls of this run, in order
    arg,            \* input of the function under study
    res             \* its result

vars == <<src, master, nextId, pc, li, cards, boardLabels, synced_count,
          mirrored_count, total_mirrored, runs, fails, down, humanOps, edits,
          origin, apiLog, phaseLog, arg, res>>
runVars == <<src, master, nextId, pc, li, cards, boardLabels, synced_count,
             mirrored_count, total_mirrored, runs, fails, down, humanOps, edits,
             origin, apiLog, phaseLog>>

\* ---------------------------------------------------------------- bounds
MaxDescLen == 3
MaxItems == 4
MaxChecklists == 2
MaxRuns == 2
MaxFails == 1
MaxHumanOps == 1
MaxCalls == 8
MaxSyncItems == 2

\* ------------------------------------------------------- Python helpers
None == [t |-> "None"]

Ch(c) == [t |-> "ch", c |-> c]
MK == [t |-> "mk"]
JS(o) == [t |-> "json", o |-> o]
SP == Ch(" ")
NL == Ch("\n")

Upper == <<"A","B","C","D","E","F","G","H","I","J","K","L","M",
           "N","O","P","Q","R","S","T","U","V","W","X","Y","Z">>
LowerLetters == <<"a","b","c","d","e","f","g","h","i","j","k","l","m",
                  "n","o","p","q","r","s","t","u","v","w","x","y","z">>

\* str.lower(), character by character
LowerChar(c) ==
    IF \E i \in DOMAIN Upper : Upper[i] = c
    THEN LowerLetters[CHOOSE i \in DOMAIN Upper : Upper[i] = c]
    ELSE c
Lower(s) == [i \in DOMAIN s |-> LowerChar(s[i])]

\* dict.get(key, default)
Get(d, k, default) == IF k \in DOMAIN d THEN d[k] ELSE default

\* s[from:to] with 0-based half-open Python indices, as a 1-based sequence
Slice(s, from, to) == IF to <= from THEN <<>> ELSE SubSeq(s, from + 1, to)

\* str.find(token, start): 0-based index of the first match, or -1
Find(s, tok, start) ==
    LET hits == {i \in (start + 1)..Len(s) : s[i] = tok}
    IN IF hits = {} THEN -1
       ELSE (CHOOSE i \in hits : \A j \in hits : i <= j) - 1

IsSpace(tok) == tok = SP \/ tok = NL

\* str.strip()
RECURSIVE LStrip(_)
LStrip(s) == IF s # <<>> /\ IsSpace(Head(s)) THEN LStrip(Tail(s)) ELSE s
RECURSIVE RStrip(_)
RStrip(s) ==
    IF s # <<>> /\ IsSpace(s[Len(s)]) THEN RStrip(SubSeq(s, 1, Len(s) - 1)) ELSE s
Strip(s) == RStrip(LStrip(s))

JSONDecodeError == [t |-> "JSONDecodeError"]

\* json.loads(text): the object when the text is exactly one JSON document,
\* JSONDecodeError otherwise; plain characters of the model are letters and
\* white space and spell no JSON.
JsonLoads(text) ==
    IF Len(text) = 1 /\ text[1].t = "json" THEN text[1].o ELSE JSONDecodeError

\* ----------------------------------------------------- program constants
PROPOSALS_BOARD_ID == "6862042608fdc9ecc66f793b"
PAPERS_BOARD_ID == "6866dd4609df4573a20ba546"
MASTER_PROPOSALS_LIST_ID == "685d5ad92a6725cdeb415f91"
MASTER_PAPERS_LIST_ID == "685d5ad7a89f68ae6d215449"

PRIORITY_LIST_NAME == <<"P","r","i","o","r","i","t","y"," ","I","V">>
PROGRESS_CHECKLIST_NAME == <<"I","n","-","P","r","o","g","r","e","s","s">>
COMPLETED_LABEL_NAME == <<"C","o","m","p","l","e","t","e","d">>
\* 0.75 as numerator and denominator
COMPLETION_THRESHOLD == <<3, 4>>
MIRROR_MARKER == MK
MIRROR_COMMENT_MARKER == "[Bot] Mirrored from"

\* ------------------------------------------------- the boards (fixed part)
SourceBoards == <<PROPOSALS_BOARD_ID, PAPERS_BOARD_ID>>
BoardNames == <<"Proposals", "Papers">>
MasterLists == <<MASTER_PROPOSALS_LIST_ID, MASTER_PAPERS_LIST_ID>>

NameBacklog == <<"B","a","c","k","l","o","g">>
NamePriorityLower == <<"p","r","i","o","r","i","t","y"," ","i","v">>
NameCompletedUpper == <<"C","O","M","P","L","E","T","E","D">>
NameComplete == <<"C","o","m","p","l","e","t","e">>
NameUrgent == <<"U","r","g","e","n","t">>
NameProgressLower == <<"i","n","-","p","r","o","g","r","e","s","s">>
NameTasks == <<"T","a","s","k","s">>

\* the lists of the source boards: GET lists/{id}
TrelloLists ==
    [l \in {"prio1", "back1", "prio2", "back2"} |->
        [name |-> CASE l = "prio1" -> PRIORITY_LIST_NAME
                    [] l = "prio2" -> NamePriorityLower
                    [] OTHER -> NameBacklog,
         idBoard |-> IF l \in {"prio1", "back1"} THEN PROPOSALS_BOARD_ID
                     ELSE PAPERS_BOARD_ID]]

\* the labels of the source boards: GET boards/{id}/labels
TrelloLabels ==
    [b \in {PROPOSALS_BOARD_ID, PAPERS_BOARD_ID} |->
        IF b = PROPOSALS_BOARD_ID
        THEN [l \in {"done1", "urgent1"} |->
                 IF l = "done1" THEN COMPLETED_LABEL_NAME ELSE NameUrgent]
        ELSE [l \in {"done2", "urgent2"} |->
                 IF l = "done2" THEN NameCompletedUpper ELSE NameUrgent]]

\* ------------------------------------------------------- Metadata codec
extract_mirror_metadata(description) ==
    IF \A i \in DOMAIN description : description[i] # MIRROR_MARKER
    THEN None
    ELSE LET start == Find(description, MIRROR_MARKER, 0) + 1
             nl == Find(description, NL, start)
             end == IF nl = -1 THEN Len(description) ELSE nl
             metadata_str == Strip(Slice(description, start, end))
             loaded == JsonLoads(metadata_str)
         IN IF loaded = JSONDecodeError THEN None ELSE loaded

create_mirror_metadata(source_board_id, source_card_id, original_desc, now) ==
    <<MIRROR_MARKER,
      JS([source_board |-> source_board_id,
          source_card |-> source_card_id,
          original_desc |-> original_desc,
          mirrored_at |-> now])>>

\* mirror_card's card_data["desc"]: f"{original_desc}\n\n{mirror_metadata}"
MirrorDesc(source_board_id, source_card_id, original_desc, now) ==
    original_desc \o <<NL, NL>>
        \o create_mirror_metadata(source_board_id, source_card_id, original_desc, now)

\* sync_card_changes' clean_desc: the text before the marker, stripped
CleanDesc(master_desc) ==
    IF \E i \in DOMAIN master_desc : master_desc[i] = MIRROR_MARKER
    THEN LET desc_end == Find(master_desc, MIRROR_MARKER, 0)
         IN Strip(Slice(master_desc, 0, desc_end))
    ELSE master_desc

\* -------------------------------------------------- Eligibility evaluator
\* has_completed_label comparing the names as they are written
has_completed_label_exact(card, board_labels) ==
    \E label_id \in card.idLabels :
        Get(board_labels, label_id, <<>>) = COMPLETED_LABEL_NAME

has_completed_label(card, board_labels) ==
    \E label_id \in card.idLabels :
        Lower(Get(board_labels, label_id, <<>>)) = Lower(COMPLETED_LABEL_NAME)

\* the ratio completed/total as <<completed, total>>; 0.0 is <<0, 1>>
get_checklist_progress(card, checklist_name) ==
    LET match == {i \in DOMAIN card.checklists :
                    Lower(card.checklists[i].name) = Lower(checklist_name)}
    IN IF match = {} THEN <<0, 1>>
       ELSE LET first == CHOOSE i \in match : \A j \in match : i <= j
                items == card.checklists[first].checkItems
                total_items == Len(items)
                completed_items ==
                    Cardinality({k \in DOMAIN items : items[k].state = "complete"})
            IN IF total_items = 0 THEN <<0, 1>> ELSE <<completed_items, total_items>>

\* progress >= COMPLETION_THRESHOLD.  The float quotient is correctly rounded
\* and 0.75 is a float, so it compares as the exact fractions do.
AtLeastThreshold(progress) ==
    progress[1] * COMPLETION_THRESHOLD[2] >= COMPLETION_THRESHOLD[1] * progress[2]

\* get_list_name: the list's name, "" when the GET is not answered with 200
get_list_name(list_id, ok) ==
    IF ~ok THEN <<>> ELSE Get(TrelloLists[list_id], "name", <<>>)

\* listOk: whether get_list_name's GET is answered with 200
should_mirror_card(card, board_labels, listOk) ==
    IF has_completed_label(card, board_labels) THEN FALSE
    ELSE IF Lower(get_list_name(card.idList, listOk)) = Lower(PRIORITY_LIST_NAME)
         THEN TRUE
         ELSE AtLeastThreshold(get_checklist_progress(card, PROGRESS_CHECKLIST_NAME))

\* ------------------------------------------------------- board service
(***************************************************************************)
(* A handler works on w = [src, log]: the source cards as the board        *)
(* service holds them and the calls the handler has issued so far in this  *)
(* step.  F is the set of sequence numbers of the calls of this step that  *)
(* the service does not answer with 200.                                   *)
(***************************************************************************)
Call(m, ep, id, data) == [m |-> m, ep |-> ep, id |-> id, data |-> data]
NoData == [x \in {} |-> None]
Failing(w, F) == (Len(w.log) + 1) \in F
Issue(w, c) == [w EXCEPT !.log = Append(@, c)]

\* a set as a sequence, in some fixed order
RECURSIVE SetToSeq(_)
SetToSeq(S) ==
    IF S = {} THEN <<>>
    ELSE LET x == CHOOSE y \in S : TRUE IN <<x>> \o SetToSeq(S \ {x})

\* the largest index of seq whose element is named name (a dict built from a
\* list keeps the last entry of a key), 0 when there is none
LastNamed(seq, name) ==
    LET hits == {i \in DOMAIN seq : seq[i].name = name}
    IN IF hits = {} THEN 0 ELSE CHOOSE i \in hits : \A j \in hits : j <= i

\* a reverse sync that adds every new item unchecked
CheckedNever(item_state) == FALSE

\* `str(item_state == "complete").lower()`, as the board service reads it
Checked(item_state) == item_state = "complete"

\* a reverse sync that never finds an item's state changed
StateNeverDiffers(source_item, item_state) == FALSE

\* `if source_item["state"] != item_state`
StateDiffers(source_item, item_state) == source_item.state # item_state

\* sync_checklists, the loop over master_checklist["checkItems"]; a checklist
\* and an item are identified by their position on the source card
RECURSIVE SyncItems(_, _, _, _, _, _, _)
SyncItems(w, source_card_id, source_checklist_id, source_items, master_items, k, F) ==
    IF k > Len(master_items) THEN w
    ELSE
        LET item_name == master_items[k].name
            item_state == master_items[k].state
            j == LastNamed(source_items, item_name)
            w1 ==
                IF j # 0
                THEN IF StateDiffers(source_items[j], item_state)
                     THEN LET c == Call("PUT", "cards/{id}/checkItem/{id}", source_card_id,
                                        [checklist |-> source_checklist_id, item |-> j,
                                         state |-> item_state])
                          IN IF Failing(w, F) THEN Issue(w, c)
                             ELSE [Issue(w, c) EXCEPT
                                     !.src[source_card_id].checklists[source_checklist_id]
                                         .checkItems[j].state = item_state]
                     ELSE w
                ELSE LET c == Call("POST", "checklists/{id}/checkItems", source_card_id,
                                   [checklist |-> source_checklist_id, name |-> item_name,
                                    checked |-> Checked(item_state)])
                     IN IF Failing(w, F) THEN Issue(w, c)
                        ELSE [Issue(w, c) EXCEPT
                                !.src[source_card_id].checklists[source_checklist_id]
                                    .checkItems =
                                    Append(@, [name |-> item_name,
                                               state |-> IF Checked(item_state)
                                                         THEN "complete"
                                                         ELSE "incomplete"])]
        IN SyncItems(w1, source_card_id, source_checklist_id, source_items,
                     master_items, k + 1, F)

\* sync_checklists, the loop over master_card["checklists"]
RECURSIVE SyncChecklistLoop(_, _, _, _, _, _)
SyncChecklistLoop(w, master_card, source_card_id, source_checklists, i, F) ==
    IF i > Len(master_card.checklists) THEN w
    ELSE
        LET master_checklist == master_card.checklists[i]
            source_checklist_id == LastNamed(source_checklists, master_checklist.name)
            w1 ==
                IF source_checklist_id = 0 THEN w
                ELSE LET c == Call("GET", "checklists/{id}", source_card_id,
                                   [checklist |-> source_checklist_id])
                     IN IF Failing(w, F) THEN Issue(w, c)
                        ELSE SyncItems(Issue(w, c), source_card_id, source_checklist_id,
                                       w.src[source_card_id]
                                           .checklists[source_checklist_id].checkItems,
                                       master_checklist.checkItems, 1, F)
        IN SyncChecklistLoop(w1, master_card, source_card_id, source_checklists, i + 1, F)

sync_checklists(w, master_card, source_card_id, F) ==
    LET c == Call("GET", "cards/{id}/checklists", source_card_id, NoData)
    IN IF Failing(w, F) THEN Issue(w, c)
       ELSE SyncChecklistLoop(Issue(w, c), master_card, source_card_id,
                              w.src[source_card_id].checklists, 1, F)

\* a loop that issues one call per element of todo and applies it on success
RECURSIVE MemberLoop(_, _, _, _, _)
MemberLoop(w, source_card_id, todo, adding, F) ==
    IF todo = <<>> THEN w
    ELSE
        LET member_id == Head(todo)
            c == IF adding
                 THEN Call("POST", "cards/{id}/idMembers", source_card_id,
                           [value |-> member_id])
                 ELSE Call("DELETE", "cards/{id}/idMembers/{id}", source_card_id,
                           [value |-> member_id])
            w1 == IF Failing(w, F) THEN Issue(w, c)
                  ELSE [Issue(w, c) EXCEPT !.src[source_card_id].idMembers =
                            IF adding THEN @ \cup {member_id} ELSE @ \ {member_id}]
        IN MemberLoop(w1, source_card_id, Tail(todo), adding, F)

\* a reverse sync that adds members and takes none off
sync_members_add_only(w, master_card, source_card, source_card_id, F) ==
    MemberLoop(w, source_card_id,
               SetToSeq(master_card.idMembers \ source_card.idMembers), TRUE, F)

sync_members(w, master_card, source_card, source_card_id, F) ==
    LET master_members == master_card.idMembers
        source_members == source_card.idMembers
        w1 == MemberLoop(w, source_card_id, SetToSeq(master_members \ source_members),
                         TRUE, F)
    IN MemberLoop(w1, source_card_id, SetToSeq(source_members \ master_members), FALSE, F)

\* the dict {att.get("url", att.get("name", "")): att}: its keys in insertion
\* order, each with the last attachment of that key
AttKey(att) == IF "url" \in DOMAIN att THEN att.url ELSE Get(att, "name", "")
\* the keys of every attachment, one per attachment and not one per key
AttKeysRepeated(atts) == [i \in DOMAIN atts |-> AttKey(atts[i])]

AttKeys(atts) ==
    LET firsts == {i \in DOMAIN atts : \A j \in 1..(i - 1) : AttKey(atts[j]) # AttKey(atts[i])}
        order[i \in 0..Len(atts)] ==
            IF i = 0 THEN <<>>
            ELSE IF i \in firsts THEN Append(order[i - 1], AttKey(atts[i]))
            ELSE order[i - 1]
    IN order[Len(atts)]
AttOfKey(atts, key) ==
    atts[CHOOSE i \in DOMAIN atts :
            AttKey(atts[i]) = key /\ \A j \in DOMAIN atts : AttKey(atts[j]) = key => j <= i]

RECURSIVE AttachmentLoop(_, _, _, _, _, _)
AttachmentLoop(w, source_card_id, master_atts, source_keys, keys, F) ==
    IF keys = <<>> THEN w
    ELSE
        LET att_key == Head(keys)
            attachment == AttOfKey(master_atts, att_key)
            w1 ==
                IF att_key \notin source_keys /\ Get(attachment, "url", "") # ""
                THEN LET c == Call("POST", "cards/{id}/attachments", source_card_id,
                                   [url |-> attachment.url])
                     IN IF Failing(w, F) THEN Issue(w, c)
                        ELSE [Issue(w, c) EXCEPT !.src[source_card_id].attachments =
                                  Append(@, [url |-> attachment.url])]
                ELSE w
        IN AttachmentLoop(w1, source_card_id, master_atts, source_keys, Tail(keys), F)

sync_attachments(w, master_card, source_card, source_card_id, F) ==
    AttachmentLoop(w, source_card_id, master_card.attachments,
                   {AttKey(source_card.attachments[i]) : i \in DOMAIN source_card.attachments},
                   AttKeys(master_card.attachments), F)

\* a comment's text is a sequence of pieces; str.startswith(marker)
StartsWith(text, marker) == Len(text) >= 1 /\ text[1] = marker

Comment(text) == [type |-> "commentCard", data |-> [text |-> text]]

RECURSIVE CommentLoop(_, _, _, _)
CommentLoop(w, source_card_id, master_comments, F) ==
    IF master_comments = <<>> THEN w
    ELSE
        LET c == Call("POST", "cards/{id}/actions/comments", source_card_id,
                      [text |-> Head(master_comments)])
            w1 == IF Failing(w, F) THEN Issue(w, c)
                  ELSE [Issue(w, c) EXCEPT !.src[source_card_id].actions =
                            Append(@, Comment(Head(master_comments)))]
        IN CommentLoop(w1, source_card_id, Tail(master_comments), F)

\* a reverse sync that writes the comments to the replica it read them from
sync_comments_on_replica(w, master_card, source_card_id, F) ==
    Issue(w, Call("POST", "cards/{id}/actions/comments", master_card.id,
                  [text |-> <<"seen">>]))

sync_comments(w, master_card, source_card_id, F) ==
    LET actions == master_card.actions
        keep == {i \in DOMAIN actions :
                    /\ actions[i].type = "commentCard"
                    /\ actions[i].data.text # <<>>
                    /\ ~StartsWith(actions[i].data.text, MIRROR_COMMENT_MARKER)}
        master_comments[i \in 0..Len(actions)] ==
            IF i = 0 THEN <<>>
            ELSE IF i \in keep THEN Append(master_comments[i - 1], actions[i].data.text)
            ELSE master_comments[i - 1]
    IN CommentLoop(w, source_card_id, master_comments[Len(actions)], F)

NoDue == "null"

\* sync_card_changes' updates dict
Updates(master_card, source_card) ==
    LET clean_desc == CleanDesc(master_card.desc)
        keys == (IF master_card.name # source_card.name THEN {"name"} ELSE {})
                \cup (IF clean_desc # source_card.desc THEN {"desc"} ELSE {})
                \cup (IF master_card.due # source_card.due THEN {"due"} ELSE {})
    IN [k \in keys |-> CASE k = "name" -> master_card.name
                         [] k = "desc" -> clean_desc
                         [] k = "due" -> master_card.due]

\* PUT cards/{id} answered with 200: the fields sent are set.  requests leaves
\* a field whose value is None out of the form it sends.
ApplyUpdates(card, updates) ==
    [card EXCEPT !.name = Get(updates, "name", @),
                 !.desc = Get(updates, "desc", @),
                 !.due = IF "due" \in DOMAIN updates /\ updates["due"] # NoDue
                         THEN updates["due"] ELSE @]

\* a reverse sync that takes every answer to the field update for success
UpdateFailureIgnored(w, updates, F) == FALSE

\* `if updates:` and `if response.status_code != 200` of the PUT
UpdateFailed(w, updates, F) == DOMAIN updates # {} /\ Failing(w, F)

\* a reverse sync that takes every answer to the source fetch for the card
FetchFailureIgnored(w, source_card_id, F) == FALSE

\* `if source_response.status_code != 200`: the call failed or the service
\* has no such card
FetchFailed(w, source_card_id, F) ==
    Failing(w, F) \/ source_card_id \notin DOMAIN w.src

\* sync_card_changes: [src, log, ret]
sync_card_changes(w, master_card, source_board_id, source_card_id, original_desc, F) ==
    LET get == Call("GET", "cards/{id}", source_card_id, NoData)
        w1 == Issue(w, get)
    IN IF FetchFailed(w, source_card_id, F)
       THEN [src |-> w1.src, log |-> w1.log, ret |-> FALSE]
       ELSE
        LET source_card == w.src[source_card_id]
            updates == Updates(master_card, source_card)
            put == Call("PUT", "cards/{id}", source_card_id, updates)
            putFails == UpdateFailed(w1, updates, F)
            w2 == IF DOMAIN updates = {} THEN w1
                  ELSE IF putFails THEN Issue(w1, put)
                  ELSE [Issue(w1, put) EXCEPT
                          !.src[source_card_id] = ApplyUpdates(@, updates)]
        IN IF putFails THEN [src |-> w2.src, log |-> w2.log, ret |-> FALSE]
           ELSE LET w3 == sync_checklists(w2, master_card, source_card_id, F)
                    w4 == sync_members(w3, master_card, source_card, source_card_id, F)
                    w5 == sync_attachments(w4, master_card, source_card, source_card_id, F)
                    w6 == sync_comments(w5, master_card, source_card_id, F)
                IN [src |-> w6.src, log |-> w6.log, ret |-> TRUE]

\* mirror_card, the loops over idMembers and idLabels of the source card
RECURSIVE MirrorIdLoop(_, _, _, _)
MirrorIdLoop(w, field, todo, F) ==
    IF todo = <<>> THEN w
    ELSE
        LET c == Call("POST", IF field = "idMembers" THEN "cards/{id}/idMembers"
                              ELSE "cards/{id}/idLabels",
                      w.card.id, [value |-> Head(todo)])
            w1 == IF Failing(w, F) THEN Issue(w, c)
                  ELSE IF field = "idMembers"
                  THEN [Issue(w, c) EXCEPT !.card.idMembers = @ \cup {Head(todo)}]
                  ELSE [Issue(w, c) EXCEPT !.card.idLabels = @ \cup {Head(todo)}]
        IN MirrorIdLoop(w1, field, Tail(todo), F)

RECURSIVE MirrorAttachmentLoop(_, _, _)
MirrorAttachmentLoop(w, todo, F) ==
    IF todo = <<>> THEN w
    ELSE
        LET attachment == Head(todo)
            w1 ==
                IF Get(attachment, "url", "") # ""
                THEN LET c == Call("POST", "cards/{id}/attachments", w.card.id,
                                   [url |-> attachment.url])
                     IN IF Failing(w, F) THEN Issue(w, c)
                        ELSE [Issue(w, c) EXCEPT !.card.attachments =
                                  Append(@, [url |-> attachment.url])]
                ELSE w
        IN MirrorAttachmentLoop(w1, Tail(todo), F)

\* a mirror that creates every item unchecked
RECURSIVE MirrorItemLoopUnchecked(_, _, _, _)
MirrorItemLoopUnchecked(w, new_checklist_id, todo, F) ==
    IF todo = <<>> THEN w
    ELSE
        LET item == Head(todo)
            c == Call("POST", "checklists/{id}/checkItems", w.card.id,
                      [checklist |-> new_checklist_id, name |-> item.name,
                       checked |-> FALSE])
            w1 == IF Failing(w, F) THEN Issue(w, c)
                  ELSE [Issue(w, c) EXCEPT
                          !.card.checklists[new_checklist_id].checkItems =
                              Append(@, [name |-> item.name, state |-> "incomplete"])]
        IN MirrorItemLoopUnchecked(w1, new_checklist_id, Tail(todo), F)

RECURSIVE MirrorItemLoop(_, _, _, _)
MirrorItemLoop(w, new_checklist_id, todo, F) ==
    IF todo = <<>> THEN w
    ELSE
        LET item == Head(todo)
            c == Call("POST", "checklists/{id}/checkItems", w.card.id,
                      [checklist |-> new_checklist_id, name |-> item.name,
                       checked |-> (item.state = "complete")])
            w1 == IF Failing(w, F) THEN Issue(w, c)
                  ELSE [Issue(w, c) EXCEPT
                          !.card.checklists[new_checklist_id].checkItems =
                              Append(@, [name |-> item.name,
                                         state |-> IF item.state = "complete"
                                                   THEN "complete" ELSE "incomplete"])]
        IN MirrorItemLoop(w1, new_checklist_id, Tail(todo), F)

RECURSIVE MirrorChecklistLoop(_, _, _)
MirrorChecklistLoop(w, todo, F) ==
    IF todo = <<>> THEN w
    ELSE
        LET checklist == Head(todo)
            c == Call("POST", "cards/{id}/checklists", w.card.id,
                      [name |-> checklist.name])
            w1 == IF Failing(w, F) THEN Issue(w, c)
                  ELSE LET made == [Issue(w, c) EXCEPT !.card.checklists =
                                       Append(@, [name |-> checklist.name,
                                                  checkItems |-> <<>>])]
                       IN MirrorItemLoop(made, Len(made.card.checklists),
                                         checklist.checkItems, F)
        IN MirrorChecklistLoop(w1, Tail(todo), F)

\* a system comment that begins with the name of the board
MirrorCommentBoardFirst(source_board_name) ==
    <<source_board_name, " board: ", MIRROR_COMMENT_MARKER>>

\* the text of the comment mirror_card writes on the replica
MirrorComment(source_board_name) ==
    <<MIRROR_COMMENT_MARKER, " ", source_board_name, " board">>

\* a mirror that writes its comment only when no call for the replica has
\* failed so far
MirrorCommentStepUnlessFailed(w, new_card_id, source_board_name, F) ==
    LET c == Call("POST", "cards/{id}/actions/comments", new_card_id,
                  [text |-> MirrorComment(source_board_name)])
    IN IF \E i \in F : i <= Len(w.log) /\ w.log[i].ep # "lists/{id}" THEN w
       ELSE IF Failing(w, F) THEN Issue(w, c)
       ELSE [Issue(w, c) EXCEPT !.card.actions =
                Append(@, Comment(MirrorComment(source_board_name)))]

\* mirror_card, "Add mirror comment"
MirrorCommentStep(w, new_card_id, source_board_name, F) ==
    LET c == Call("POST", "cards/{id}/actions/comments", new_card_id,
                  [text |-> MirrorComment(source_board_name)])
    IN IF Failing(w, F) THEN Issue(w, c)
       ELSE [Issue(w, c) EXCEPT !.card.actions =
                Append(@, Comment(MirrorComment(source_board_name)))]

\* mirror_card: [card, log, ret]; card is the replica as the board service
\* holds it when the function returns (None when it was not created)
mirror_card(w, card, new_card_id, target_list_id, source_board_name, source_board_id, now, F) ==
    LET original_desc == card.desc
        card_data == [idList |-> target_list_id,
                      name |-> card.name,
                      desc |-> MirrorDesc(source_board_id, card.id, original_desc, now),
                      due |-> card.due,
                      pos |-> "bottom"]
        post == Call("POST", "cards", target_list_id, card_data)
    IN IF Failing(w, F)
       THEN [card |-> None, log |-> Append(w.log, post), ret |-> FALSE]
       ELSE
        LET new_card == [id |-> new_card_id,
                         idList |-> card_data.idList,
                         name |-> card_data.name,
                         desc |-> card_data.desc,
                         due |-> card_data.due,
                         idMembers |-> {},
                         idLabels |-> {},
                         attachments |-> <<>>,
                         checklists |-> <<>>,
                         actions |-> <<>>]
            w1 == [card |-> new_card, log |-> Append(w.log, post)]
            w2 == MirrorIdLoop(w1, "idMembers", SetToSeq(card.idMembers), F)
            w3 == MirrorIdLoop(w2, "idLabels", SetToSeq(card.idLabels), F)
            w4 == MirrorAttachmentLoop(w3, card.attachments, F)
            w5 == MirrorChecklistLoop(w4, card.checklists, F)
            w6 == MirrorCommentStep(w5, new_card_id, source_board_name, F)
        IN [card |-> w6.card, log |-> w6.log, ret |-> TRUE]

\* clear_list, the loop over the cards the list call returned
RECURSIVE ClearLoop(_, _, _)
ClearLoop(w, todo, F) ==
    IF todo = <<>> THEN w
    ELSE
        LET c == Call("DELETE", "cards/{id}", Head(todo).id, NoData)
            w1 == IF Failing(w, F) THEN Issue(w, c)
                  ELSE [Issue(w, c) EXCEPT !.cards =
                            SelectSeq(@, LAMBDA x : x.id # Head(todo).id)]
        IN ClearLoop(w1, Tail(todo), F)

\* clear_list: [cards, log]; cards is what the list holds afterwards
clear_list(list_cards, list_id, F) ==
    LET w == [cards |-> list_cards, log |-> <<>>]
        get == Call("GET", "lists/{id}/cards", list_id, NoData)
    IN IF Failing(w, F) THEN Issue(w, get)
       ELSE ClearLoop(Issue(w, get), list_cards, F)

\* ------------------------------------------------------------ the run
\* main working board by board: sync, clear and mirror one, then the other
MainOrderPerBoard ==
    << <<"sync", 1>>, <<"clear", 1>>, <<"mirror", 1>>,
       <<"sync", 2>>, <<"clear", 2>>, <<"mirror", 2>> >>

\* main: reverse sync of both master lists, clearing of both, mirroring of
\* both boards
MainOrder ==
    << <<"sync", 1>>, <<"sync", 2>>, <<"clear", 1>>, <<"clear", 2>>,
       <<"mirror", 1>>, <<"mirror", 2>> >>

EntryPc(phase) ==
    CASE phase = "sync" -> "sync_list"
      [] phase = "clear" -> "clear"
      [] phase = "mirror" -> "board"
      [] OTHER -> "idle"

\* what main does after <<phase, l>>
AfterPos(phase, l) ==
    LET k == CHOOSE k \in DOMAIN MainOrder : MainOrder[k] = <<phase, l>>
    IN IF k = Len(MainOrder) THEN <<"idle", 1>> ELSE MainOrder[k + 1]

\* a main that gives the run up when a call of the step just taken failed
AdvanceUnlessFailed(phase) ==
    LET n == IF \E i \in DOMAIN apiLog' : ~apiLog'[i].ok THEN <<"idle", 1>>
             ELSE AfterPos(phase, li)
    IN /\ pc' = EntryPc(n[1])
       /\ li' = n[2]
       /\ runs' = IF n[1] = "idle" THEN runs + 1 ELSE runs
       /\ down' = down

Advance(phase) ==
    LET n == AfterPos(phase, li)
    IN /\ pc' = EntryPc(n[1])
       /\ li' = n[2]
       /\ runs' = IF n[1] = "idle" THEN runs + 1 ELSE runs
       /\ down' = down

Stay(newpc) == pc' = newpc /\ li' = li /\ runs' = runs /\ down' = down

RECURSIVE SubsetsUpTo(_, _)
SubsetsUpTo(S, k) ==
    IF k <= 0 THEN {{}}
    ELSE LET P == SubsetsUpTo(S, k - 1) IN P \cup {T \cup {x} : T \in P, x \in S}

\* the failures the board service may still answer with in one step: every
\* call while it is down, a few calls otherwise
FailSets == IF down THEN {1..MaxCalls} ELSE SubsetsUpTo(1..MaxCalls, MaxFails - fails)

\* the failures are failures of the n calls of the step
Fits(F, n) == down \/ F \subseteq 1..n

\* the count of the failures that were no outage
Counted(F) == IF down THEN fails ELSE fails + Cardinality(F)

\* the calls of a step, each with whether the board service answered 200
Answered(log, F) ==
    [i \in DOMAIN log |->
        [m |-> log[i].m, ep |-> log[i].ep, id |-> log[i].id, data |-> log[i].data,
         ok |-> i \notin F]]

\* phaseLog with the kind of call added, runs of one kind written once
Note(log, kinds) ==
    LET add[i \in 0..Len(kinds)] ==
            IF i = 0 THEN log
            ELSE IF add[i - 1] # <<>> /\ add[i - 1][Len(add[i - 1])] = kinds[i]
            THEN add[i - 1]
            ELSE Append(add[i - 1], kinds[i])
    IN add[Len(kinds)]

SourceIds == <<"s1", "s2", "s3">>
NewIds == <<"m1", "m2", "m3", "m4", "m5", "m6", "m7", "m8", "m9", "m10",
            "m11", "m12", "m13", "m14", "m15", "m16", "m17", "m18">>

Item(name, state) == [name |-> name, state |-> state]

InitSrc ==
    [s \in {"s1", "s2", "s3"} |->
        CASE s = "s1" ->
               [id |-> "s1", idList |-> "prio1", name |-> "Grant A",
                desc |-> <<Ch("a")>>, due |-> NoDue,
                idLabels |-> {}, idMembers |-> {"ann"},
                attachments |-> <<[url |-> "http://a"]>>,
                checklists |-> <<>>, actions |-> <<>>]
          [] s = "s2" ->
               [id |-> "s2", idList |-> "back1", name |-> "Grant B",
                desc |-> <<>>, due |-> "2026-01-01",
                idLabels |-> {"urgent1"}, idMembers |-> {},
                attachments |-> <<>>,
                checklists |-> <<[name |-> PROGRESS_CHECKLIST_NAME,
                                  checkItems |-> <<Item("t1", "complete"),
                                                   Item("t2", "complete")>>]>>,
                actions |-> <<>>]
          [] OTHER ->
               [id |-> "s3", idList |-> "back2", name |-> "Paper C",
                desc |-> <<Ch("a")>>, due |-> NoDue,
                idLabels |-> {}, idMembers |-> {},
                attachments |-> <<>>,
                checklists |-> <<[name |-> NameProgressLower,
                                  checkItems |-> <<Item("t1", "complete"),
                                                   Item("t2", "incomplete")>>]>>,
                actions |-> <<>>]]

RunInit ==
    /\ src = InitSrc
    /\ master = [l \in {MASTER_PROPOSALS_LIST_ID, MASTER_PAPERS_LIST_ID} |-> <<>>]
    /\ nextId = 0
    /\ pc = "idle"
    /\ li = 1
    /\ cards = <<>>
    /\ boardLabels = NoData
    /\ synced_count = 0
    /\ mirrored_count = 0
    /\ total_mirrored = 0
    /\ runs = 0
    /\ fails = 0
    /\ down = FALSE
    /\ humanOps = 0
    /\ edits = {}
    /\ origin = {}
    /\ apiLog = <<>>
    /\ phaseLog = <<>>

Init == RunInit /\ arg = None /\ res = None

\* main is started by the scheduler
Main_Start ==
    /\ pc = "idle"
    /\ runs < MaxRuns
    /\ pc' = EntryPc(MainOrder[1][1])
    /\ li' = MainOrder[1][2]
    /\ synced_count' = 0
    /\ mirrored_count' = 0
    /\ total_mirrored' = 0
    /\ cards' = <<>>
    /\ apiLog' = <<>>
    /\ phaseLog' = <<>>
    /\ UNCHANGED <<src, master, nextId, boardLabels, runs, fails, down, humanOps,
                   edits, origin, arg, res>>

\* sync_changes_from_master: cards = get_all_cards_from_list(api, list_id)
SyncList ==
    /\ pc = "sync_list"
    /\ \E F \in FailSets :
        LET list_id == MasterLists[li]
            got == IF 1 \in F THEN <<>> ELSE master[list_id]
        IN /\ Fits(F, 1)
           /\ cards' = got
           /\ apiLog' = Answered(<<Call("GET", "lists/{id}/cards", list_id, NoData)>>, F)
           /\ fails' = Counted(F)
           /\ IF got = <<>> THEN Advance("sync") ELSE Stay("sync_card")
    /\ phaseLog' = Note(phaseLog, <<"sync">>)
    /\ UNCHANGED <<src, master, nextId, boardLabels, synced_count, mirrored_count,
                   total_mirrored, humanOps, edits, origin, arg, res>>

\* `if metadata:` without the test of the two ids
IsManagedLax(metadata) == metadata # None

\* `if metadata:` and `if source_board_id and source_card_id:`
IsManaged(metadata) ==
    /\ metadata # None
    /\ DOMAIN metadata # {}
    /\ Get(metadata, "source_board", "") # ""
    /\ Get(metadata, "source_card", "") # ""

\* sync_changes_from_master: one turn of `for card in cards`
SyncCard ==
    /\ pc = "sync_card"
    /\ cards # <<>>
    /\ \E F \in FailSets :
        LET card == Head(cards)
            metadata == extract_mirror_metadata(card.desc)
            done == IF IsManaged(metadata)
                    THEN sync_card_changes([src |-> src, log |-> <<>>], card,
                                           Get(metadata, "source_board", ""),
                                           Get(metadata, "source_card", ""),
                                           Get(metadata, "original_desc", <<>>), F)
                    ELSE [src |-> src, log |-> <<>>, ret |-> FALSE]
        IN \E r \in {done} :
           /\ Fits(F, Len(r.log))
           /\ src' = r.src
           /\ apiLog' = Answered(r.log, F)
           /\ synced_count' = IF r.ret THEN synced_count + 1 ELSE synced_count
           /\ fails' = Counted(F)
           /\ phaseLog' = IF r.log = <<>> THEN phaseLog ELSE Note(phaseLog, <<"sync">>)
    /\ cards' = Tail(cards)
    /\ IF Tail(cards) = <<>> THEN Advance("sync") ELSE Stay("sync_card")
    /\ UNCHANGED <<master, nextId, boardLabels, mirrored_count, total_mirrored,
                   humanOps, edits, origin, arg, res>>

CallKinds(log) ==
    LET kind(c) == IF c.m = "DELETE" /\ c.ep = "cards/{id}" THEN "delete"
                   ELSE IF c.m = "POST" /\ c.ep = "cards" THEN "create"
                   ELSE "other"
    IN SelectSeq([i \in DOMAIN log |-> kind(log[i])], LAMBDA k : k # "other")

\* clear_list(api, list_id, list_name)
ClearList ==
    /\ pc = "clear"
    /\ \E F \in FailSets :
        LET list_id == MasterLists[li]
        IN \E r \in {clear_list(master[list_id], list_id, F)} :
           /\ Fits(F, Len(r.log))
           /\ master' = [master EXCEPT ![list_id] = r.cards]
           /\ apiLog' = Answered(r.log, F)
           /\ fails' = Counted(F)
           /\ phaseLog' = Note(phaseLog, CallKinds(r.log))
           /\ edits' = {e \in edits :
                          \E l \in DOMAIN master' : \E i \in DOMAIN master'[l] :
                              master'[l][i].id = e.mid}
           /\ origin' = {o \in origin :
                          \E l \in DOMAIN master' : \E i \in DOMAIN master'[l] :
                              master'[l][i].id = o[1]}
    /\ Advance("clear")
    /\ UNCHANGED <<src, nextId, cards, boardLabels, synced_count, mirrored_count,
                   total_mirrored, humanOps, arg, res>>

\* get_all_cards_from_board: the open cards of the board
BoardCards(board_id) ==
    SelectSeq([i \in DOMAIN SourceIds |-> src[SourceIds[i]]],
              LAMBDA c : TrelloLists[c.idList].idBoard = board_id)

\* process_board up to its loop: the cards and the labels of the board
ProcessBoard ==
    /\ pc = "board"
    /\ \E F \in FailSets :
        LET board_id == SourceBoards[li]
            got == IF 1 \in F THEN <<>> ELSE BoardCards(board_id)
        IN /\ Fits(F, 2)
           /\ cards' = got
           /\ boardLabels' = IF 2 \in F THEN NoData ELSE TrelloLabels[board_id]
           /\ apiLog' = Answered(<<Call("GET", "boards/{id}/cards", board_id, NoData),
                                   Call("GET", "boards/{id}/labels", board_id, NoData)>>, F)
           /\ fails' = Counted(F)
           /\ IF got = <<>> THEN Advance("mirror") ELSE Stay("mirror_card")
    /\ mirrored_count' = 0
    /\ UNCHANGED <<src, master, nextId, synced_count, total_mirrored, humanOps,
                   edits, origin, phaseLog, arg, res>>

\* process_board: one turn of `for card in cards`
MirrorCard ==
    /\ pc = "mirror_card"
    /\ cards # <<>>
    /\ nextId < Len(NewIds)
    /\ \E F \in FailSets :
        LET card == Head(cards)
            list_id == MasterLists[li]
            asked == ~has_completed_label(card, boardLabels)
            get == Call("GET", "lists/{id}", card.idList, NoData)
            log0 == IF asked THEN <<get>> ELSE <<>>
            promote == should_mirror_card(card, boardLabels, 1 \notin F)
            done == IF promote
                    THEN mirror_card([log |-> log0], card, NewIds[nextId + 1], list_id,
                                     BoardNames[li], SourceBoards[li], runs, F)
                    ELSE [card |-> None, log |-> log0, ret |-> FALSE]
        IN \E r \in {done} :
           LET count == IF r.ret THEN mirrored_count + 1 ELSE mirrored_count IN
           /\ Fits(F, Len(r.log))
           /\ master' = IF r.card = None THEN master
                        ELSE [master EXCEPT ![list_id] = Append(@, r.card)]
           /\ nextId' = IF r.card = None THEN nextId ELSE nextId + 1
           /\ origin' = IF r.card = None THEN origin
                        ELSE origin \cup {<<r.card.id, card.id>>}
           /\ apiLog' = Answered(r.log, F)
           /\ fails' = Counted(F)
           /\ phaseLog' = Note(phaseLog, CallKinds(r.log))
           /\ mirrored_count' = count
           /\ total_mirrored' = IF Tail(cards) = <<>> THEN total_mirrored + count
                                ELSE total_mirrored
    /\ cards' = Tail(cards)
    /\ IF Tail(cards) = <<>> THEN Advance("mirror") ELSE Stay("mirror_card")
    /\ UNCHANGED <<src, boardLabels, synced_count, humanOps, edits, arg, res>>

\* ------------------------------------------------------------- people
Between == pc = "idle" /\ runs < MaxRuns /\ humanOps < MaxHumanOps

\* the description of a replica with the text before the marker rewritten
Rewritten(desc, text) == text \o Slice(desc, Find(desc, MIRROR_MARKER, 0), Len(desc))

\* somebody edits the title or the description of a replica
HumanEditsReplica ==
    /\ Between
    /\ \E l \in DOMAIN master : \E i \in DOMAIN master[l] : \E field \in {"name", "desc"} :
        LET card == master[l][i]
            val == IF field = "name" THEN [name |-> "Renamed"]
                   ELSE [desc |-> <<Ch("b")>>]
        IN /\ \E o \in origin : o[1] = card.id
           /\ \A e \in edits : e.mid # card.id
           /\ master' = [master EXCEPT ![l][i] =
                            IF field = "name" THEN [@ EXCEPT !.name = val.name]
                            ELSE [@ EXCEPT !.desc = Rewritten(@, val.desc)]]
           /\ edits' = edits \cup {[mid |-> card.id, val |-> val]}
    /\ humanOps' = humanOps + 1
    /\ UNCHANGED <<src, nextId, pc, li, cards, boardLabels, synced_count,
                   mirrored_count, total_mirrored, runs, fails, down, origin,
                   apiLog, phaseLog, arg, res>>

\* descriptions of cards that are no replicas
UnmanagedDescs ==
    { <<Ch("a")>>,
      <<MK, Ch("a")>>,
      <<MK, JS([source_board |-> PROPOSALS_BOARD_ID])>>,
      <<MK, JS([source_card |-> "s1"])>> }

\* somebody adds a card of their own to a master list
HumanAddsCard ==
    /\ Between
    /\ nextId < Len(NewIds)
    /\ \E l \in DOMAIN master : \E d \in UnmanagedDescs :
        master' = [master EXCEPT ![l] =
            Append(@, [id |-> NewIds[nextId + 1], idList |-> l, name |-> "Note",
                       desc |-> d, due |-> NoDue, idMembers |-> {}, idLabels |-> {},
                       attachments |-> <<>>, checklists |-> <<>>, actions |-> <<>>])]
    /\ nextId' = nextId + 1
    /\ humanOps' = humanOps + 1
    /\ UNCHANGED <<src, pc, li, cards, boardLabels, synced_count, mirrored_count,
                   total_mirrored, runs, fails, down, edits, origin, apiLog,
                   phaseLog, arg, res>>

DoneLabel(board_id) == IF board_id = PROPOSALS_BOARD_ID THEN "done1" ELSE "done2"
OtherList(list_id) ==
    CASE list_id = "prio1" -> "back1"
      [] list_id = "back1" -> "prio1"
      [] list_id = "prio2" -> "back2"
      [] OTHER -> "prio2"

\* somebody labels a source card completed (or takes the label off), or moves
\* it to the other list of its board
HumanEditsSource ==
    /\ Between
    /\ \E s \in DOMAIN src : \E what \in {"label", "move"} :
        LET done == DoneLabel(TrelloLists[src[s].idList].idBoard)
        IN src' = [src EXCEPT ![s] =
                      IF what = "label"
                      THEN [@ EXCEPT !.idLabels = IF done \in @ THEN @ \ {done}
                                                  ELSE @ \cup {done}]
                      ELSE [@ EXCEPT !.idList = OtherList(@)]]
    /\ humanOps' = humanOps + 1
    /\ UNCHANGED <<master, nextId, pc, li, cards, boardLabels, synced_count,
                   mirrored_count, total_mirrored, runs, fails, down, edits,
                   origin, apiLog, phaseLog, arg, res>>

Next ==
    \/ Main_Start
    \/ SyncList
    \/ SyncCard
    \/ ClearList
    \/ ProcessBoard
    \/ MirrorCard
    \/ HumanEditsReplica
    \/ HumanAddsCard
    \/ HumanEditsSource

Spec == Init /\ [][Next]_vars

\* ------------------------------ later runs, started by a fair scheduler
\* the replicas an earlier run left on master list k, every call of that run
\* answered
EarlierReplicas(k) ==
    LET made == [i \in DOMAIN SourceIds |->
                    LET card == InitSrc[SourceIds[i]]
                    IN IF /\ TrelloLists[card.idList].idBoard = SourceBoards[k]
                          /\ should_mirror_card(card, TrelloLabels[SourceBoards[k]], TRUE)
                       THEN mirror_card([log |-> <<>>], card, NewIds[i], MasterLists[k],
                                        BoardNames[k], SourceBoards[k], 0, {}).card
                       ELSE None]
    IN SelectSeq(made, LAMBDA c : c # None)

\* somebody has commented on the replica of source card number who
Commented(list_cards, who) ==
    [i \in DOMAIN list_cards |->
        IF who # 0 /\ list_cards[i].id = NewIds[who]
        THEN [list_cards[i] EXCEPT !.actions = Append(@, Comment(<<"hi">>))]
        ELSE list_cards[i]]

\* the master lists hold the replicas of an earlier run, one of them may carry
\* a comment of a reader; the board service may be down
InitRerun ==
    /\ src = InitSrc
    /\ \E who \in 0..Len(SourceIds) :
        /\ master = [l \in {MASTER_PROPOSALS_LIST_ID, MASTER_PAPERS_LIST_ID} |->
                       Commented(EarlierReplicas(
                           CHOOSE k \in DOMAIN MasterLists : MasterLists[k] = l), who)]
        /\ who # 0 => \E l \in DOMAIN master : \E i \in DOMAIN master[l] :
                           master[l][i].id = NewIds[who]
        /\ humanOps = IF who = 0 THEN 0 ELSE 1
    /\ nextId = Len(SourceIds)
    /\ origin = UNION {{<<master[l][i].id,
                           Get(extract_mirror_metadata(master[l][i].desc),
                               "source_card", "")>> : i \in DOMAIN master[l]}
                         : l \in DOMAIN master}
    /\ pc = "idle"
    /\ li = 1
    /\ cards = <<>>
    /\ boardLabels = NoData
    /\ synced_count = 0
    /\ mirrored_count = 0
    /\ total_mirrored = 0
    /\ runs = 0
    /\ fails = 0
    /\ down \in BOOLEAN
    /\ edits = {}
    /\ apiLog = <<>>
    /\ phaseLog = <<>>
    /\ arg = None
    /\ res = None

\* the status the process ends with: main returns and the script ends, no
\* exit status is set
ExitStatus == 0

\* one step of the program: no step of a person
NextRerun ==
    \/ Main_Start
    \/ SyncList
    \/ SyncCard
    \/ ClearList
    \/ ProcessBoard
    \/ MirrorCard

\* what a turn of `for card in cards` of sync_changes_from_master does to the
\* cards that are left
SyncCardTurn == pc = "sync_card" /\ cards # <<>> /\ cards' = Tail(cards)

\* what a turn of `for card in cards` of process_board does to them
MirrorCardTurn ==
    pc = "mirror_card" /\ cards # <<>> /\ nextId < Len(NewIds) /\ cards' = Tail(cards)

\* main is sequential code: a run that has started takes its next step, and
\* a loop its next turn
SpecRerun ==
    /\ InitRerun
    /\ [][NextRerun]_vars
    /\ WF_vars(SyncList)
    /\ WF_cards(SyncCardTurn)
    /\ WF_vars(ClearList)
    /\ WF_vars(ProcessBoard)
    /\ WF_cards(MirrorCardTurn)

\* ------------------------------------------- the eligibility evaluator alone
ItemNames == <<"t1", "t2", "t3", "t4", "t5", "t6", "t7", "t8">>

\* a checklist of total items, the first done of them complete
ChecklistOf(name, total, done) ==
    [name |-> name,
     checkItems |-> [i \in 1..total |->
                        Item(ItemNames[i], IF i <= done THEN "complete" ELSE "incomplete")]]

\* checklists that are empty or hold MaxItems items, any number of them done
EligChecklists ==
    {ChecklistOf(n, t, d) : n \in {PROGRESS_CHECKLIST_NAME, NameProgressLower, NameTasks},
                            t \in {0, MaxItems}, d \in 0..MaxItems}

EligChecklistSeqs == UNION {[1..n -> EligChecklists] : n \in 0..MaxChecklists}

\* label lookups: the board's, one in other letter case, one with a label of
\* another name, one that does not know the label
EligLabelTables ==
    { TrelloLabels[PROPOSALS_BOARD_ID],
      [l \in {"done1", "urgent1"} |-> IF l = "done1" THEN NameCompletedUpper ELSE NameUrgent],
      [l \in {"done1", "urgent1"} |-> IF l = "done1" THEN NameComplete ELSE NameUrgent],
      [l \in {"urgent1"} |-> NameUrgent] }

EligInputs ==
    [card : [idList : {"prio1", "prio2", "back1"},
             idLabels : SUBSET {"done1", "urgent1"},
             checklists : EligChecklistSeqs],
     board_labels : EligLabelTables,
     listOk : BOOLEAN]

InitElig == RunInit /\ arg \in EligInputs /\ res = None

\* should_mirror_card is called on the card
Evaluate ==
    /\ res = None
    /\ res' = [promote |-> should_mirror_card(arg.card, arg.board_labels, arg.listOk)]
    /\ UNCHANGED <<arg, runVars>>

NextElig == Evaluate

SpecElig == InitElig /\ [][NextElig]_vars

\* ------------------------------------------------- the metadata codec alone
ForeignRecord ==
    [source_board |-> PAPERS_BOARD_ID, source_card |-> "s9",
     original_desc |-> <<>>, mirrored_at |-> 0]

DescTokens == {Ch("a"), SP, NL, MK, JS(ForeignRecord)}
Descs == UNION {[1..n -> DescTokens] : n \in 0..MaxDescLen}

CodecInputs == [b : {PROPOSALS_BOARD_ID, PAPERS_BOARD_ID}, c : {"s1", "s2"}, d : Descs]

InitCodec == RunInit /\ arg \in CodecInputs /\ res = None

\* mirror_card builds the description of the replica
Encode ==
    /\ res = None
    /\ res' = [desc |-> MirrorDesc(arg.b, arg.c, arg.d, 1)]
    /\ UNCHANGED <<arg, runVars>>

\* sync_changes_from_master decodes the description of the replica
Decode ==
    /\ res # None
    /\ DOMAIN res = {"desc"}
    /\ res' = [desc |-> res.desc, metadata |-> extract_mirror_metadata(res.desc)]
    /\ UNCHANGED <<arg, runVars>>

\* sync_card_changes strips the metadata off the description of the replica
StripMetadata ==
    /\ res # None
    /\ DOMAIN res = {"desc", "metadata"}
    /\ res' = [desc |-> res.desc, metadata |-> res.metadata,
               clean_desc |-> CleanDesc(res.desc)]
    /\ UNCHANGED <<arg, runVars>>

NextCodec == Encode \/ Decode \/ StripMetadata

SpecCodec == InitCodec /\ [][NextCodec]_vars

\* ------------------------------------ the reverse sync of one replica alone
\* a source card with nothing on it, and the replica mirror_card makes of a
\* source card when every call succeeds
PlainCard ==
    [id |-> "s1", idList |-> "back1", name |-> "Grant A", desc |-> <<Ch("a")>>,
     due |-> NoDue, idLabels |-> {}, idMembers |-> {}, attachments |-> <<>>,
     checklists |-> <<>>, actions |-> <<>>]

Replica(card) ==
    mirror_card([log |-> <<>>], card, "m1", MASTER_PROPOSALS_LIST_ID, "Proposals",
                PROPOSALS_BOARD_ID, 1, {}).card

\* the source card as it is now and the replica as it is now
Pair(source, master_card) == [source |-> source, master_card |-> master_card]

\* up to MaxSyncItems items of two names, complete or not
SyncItemSeqs ==
    UNION {[1..n -> {Item(name, st) : name \in {"t1", "t2"},
                                      st \in {"complete", "incomplete"}}]
             : n \in 0..MaxSyncItems}

\* the source has a progress checklist and a checklist of tasks; the replica
\* has one checklist, of either name
ChecklistPairs ==
    {Pair([PlainCard EXCEPT !.checklists =
              <<[name |-> PROGRESS_CHECKLIST_NAME, checkItems |-> si],
                [name |-> NameTasks, checkItems |-> <<Item("t1", "incomplete")>>]>>],
          [Replica(PlainCard) EXCEPT !.checklists = <<[name |-> n, checkItems |-> mi]>>])
       : si \in SyncItemSeqs, mi \in SyncItemSeqs,
         n \in {PROGRESS_CHECKLIST_NAME, NameTasks}}

People == {"ann", "bob"}

MemberPairs ==
    {Pair([PlainCard EXCEPT !.idMembers = sm],
          [Replica(PlainCard) EXCEPT !.idMembers = mm])
       : sm \in SUBSET People, mm \in SUBSET People}

AttachmentSeqs(urls) == UNION {[1..n -> {[url |-> u] : u \in urls}] : n \in 0..2}

AttachmentPairs ==
    {Pair([PlainCard EXCEPT !.attachments = sa],
          [Replica(PlainCard) EXCEPT !.attachments = ma])
       : sa \in AttachmentSeqs({"http://a", "http://b"}),
         ma \in AttachmentSeqs({"http://a", "http://b", ""})}

CommentTexts == {<<"hi">>, <<"ok">>, <<MIRROR_COMMENT_MARKER, " too">>}

\* people comment on the replica, below the comment of the mirror
CommentPairs ==
    {Pair(PlainCard,
          [Replica(PlainCard) EXCEPT !.actions =
              @ \o [i \in DOMAIN texts |-> Comment(texts[i])]])
       : texts \in UNION {[1..n -> CommentTexts] : n \in 0..2}}

\* the replica of a source card of any description, not edited since
DescPairs ==
    {Pair([PlainCard EXCEPT !.desc = d], Replica([PlainCard EXCEPT !.desc = d]))
       : d \in Descs}

LabelPairs ==
    {Pair([PlainCard EXCEPT !.idLabels = sl],
          [Replica(PlainCard) EXCEPT !.idLabels = ml])
       : sl \in SUBSET {"urgent1", "done1"}, ml \in SUBSET {"urgent1", "done1"}}

\* a checklist of either name with up to MaxSyncItems items
FirstChecklists ==
    {[name |-> n, checkItems |-> it]
       : n \in {PROGRESS_CHECKLIST_NAME, NameTasks}, it \in SyncItemSeqs}

SecondChecklists ==
    {[name |-> PROGRESS_CHECKLIST_NAME, checkItems |-> <<Item("t1", "complete")>>],
     [name |-> NameTasks, checkItems |-> <<Item("t1", "incomplete")>>]}

\* no checklist, one, or two: names of checklists and of items may repeat
MirrorChecklists ==
    {<<>>} \cup {<<c>> : c \in FirstChecklists}
           \cup {<<c, d>> : c \in FirstChecklists, d \in SecondChecklists}

\* attachments with a URL, with an empty one and with none
MirrorAttachments ==
    UNION {[1..n -> {[url |-> "http://a"], [url |-> "http://b"], [url |-> ""],
                     [name |-> "file"]}] : n \in 0..2}

\* cards of the priority list, as get_all_cards_from_board returns them
MirrorCards ==
    {[PlainCard EXCEPT !.idList = "prio1", !.checklists = c] : c \in MirrorChecklists}
        \cup {[PlainCard EXCEPT !.idList = "prio1", !.attachments = a, !.due = d]
                : a \in MirrorAttachments, d \in {NoDue, "2026-01-01"}}
        \cup {[PlainCard EXCEPT !.idList = "prio1", !.idMembers = m, !.idLabels = l,
                                !.desc = d]
                : m \in SUBSET People, l \in SUBSET {"urgent1"},
                  d \in {<<>>, <<Ch("a")>>, <<Ch("a"), NL, MK, Ch("b")>>}}

\* a source card as it was when it was mirrored
Mirrored ==
    [PlainCard EXCEPT !.due = "2026-01-01", !.idMembers = {"ann"},
                      !.checklists = <<[name |-> PROGRESS_CHECKLIST_NAME,
                                        checkItems |-> <<Item("t1", "incomplete"),
                                                         Item("t2", "complete")>>]>>]

\* the card after one edit made on the source board
SourceEdits(card) ==
    {[card EXCEPT !.name = "Grant A, second call"],
     [card EXCEPT !.desc = <<Ch("b")>>],
     [card EXCEPT !.due = "2026-02-02"],
     [card EXCEPT !.due = NoDue],
     [card EXCEPT !.idMembers = @ \cup {"bob"}],
     [card EXCEPT !.idMembers = {}],
     [card EXCEPT !.checklists[1].checkItems[1].state = "complete"],
     [card EXCEPT !.checklists[1].checkItems[2].state = "incomplete"]}

\* the source edited since the run that mirrored it, the replica as that run
\* made it
SourceEditedPairs == {Pair(edited, Replica(Mirrored)) : edited \in SourceEdits(Mirrored)}

\* a source card of any checklists and the replica a mirror without failures
\* made of it, neither edited since
ExactCopyPairs ==
    {Pair([PlainCard EXCEPT !.checklists = c], Replica([PlainCard EXCEPT !.checklists = c]))
       : c \in MirrorChecklists}

\* the title of the replica edited or not
Retitled(pair, renamed) ==
    IF renamed THEN [pair EXCEPT !.master_card.name = "Renamed"] ELSE pair

SyncPairs ==
    ChecklistPairs \cup SourceEditedPairs \cup ExactCopyPairs
        \cup {Retitled(p, r) : p \in MemberPairs \cup AttachmentPairs \cup CommentPairs
                                      \cup DescPairs \cup LabelPairs,
                               r \in BOOLEAN}

\* sync_changes_from_master's turn for the replica, as SyncCard takes it
SyncOf(pair, F) ==
    LET card == pair.master_card
        metadata == extract_mirror_metadata(card.desc)
        w == [src |-> [s \in {pair.source.id} |-> pair.source], log |-> <<>>]
    IN IF IsManaged(metadata)
       THEN sync_card_changes(w, card, Get(metadata, "source_board", ""),
                              Get(metadata, "source_card", ""),
                              Get(metadata, "original_desc", <<>>), F)
       ELSE [src |-> w.src, log |-> <<>>, ret |-> FALSE]

\* a pair and the calls of its reverse sync that fail, at most n of them
SyncInputs(n) ==
    {x \in [pair : SyncPairs, F : SubsetsUpTo(1..MaxCalls, n)]
       : x.F \subseteq 1..Len(SyncOf(x.pair, x.F).log)}

InitSync == RunInit /\ arg \in SyncInputs(MaxFails) /\ res = None

ReverseSync ==
    /\ res = None
    /\ \E r \in {SyncOf(arg.pair, arg.F)} :
          res' = [src |-> r.src, log |-> Answered(r.log, arg.F), ret |-> r.ret]
    /\ UNCHANGED <<arg, runVars>>

NextSync == ReverseSync

SpecSync == InitSync /\ [][NextSync]_vars

\* ----------------------------------------- the mirroring of one card alone
\* what a master list may hold when process_board comes to it
ListsBefore ==
    {<<>>, <<Replica(PlainCard)>>,
     <<[PlainCard EXCEPT !.id = "m1", !.idList = MASTER_PROPOSALS_LIST_ID,
                         !.name = "Note"]>>}

\* process_board's call of mirror_card for a card of the Proposals board
MirrorOf(card, F) ==
    mirror_card([log |-> <<>>], card, "m2", MASTER_PROPOSALS_LIST_ID, BoardNames[1],
                PROPOSALS_BOARD_ID, 1, F)

\* a card, the master list, and the calls that fail, at most n of them
MirrorInputs(n) ==
    {x \in [card : MirrorCards, list_cards : ListsBefore,
            F : SubsetsUpTo(1..MaxCalls, n)]
       : x.F \subseteq 1..Len(MirrorOf(x.card, x.F).log)}

InitMirror == RunInit /\ arg \in MirrorInputs(MaxFails) /\ res = None

\* the replica is created at the bottom of the list (pos = "bottom")
ForwardMirror ==
    /\ res = None
    /\ \E r \in {MirrorOf(arg.card, arg.F)} :
          res' = [list_cards |-> IF r.card = None THEN arg.list_cards
                                 ELSE Append(arg.list_cards, r.card),
                  log |-> Answered(r.log, arg.F),
                  ret |-> r.ret]
    /\ UNCHANGED <<arg, runVars>>

NextMirror == ForwardMirror

SpecMirror == InitMirror /\ [][NextMirror]_vars

\* ---------------------------------------------------------------- claims
MasterIds(m) == UNION {{m[l][i].id : i \in DOMAIN m[l]} : l \in DOMAIN m}
SourceOf(id) == (CHOOSE o \in origin : o[1] = id)[2]

\* C1: whenever a step deletes a replica that somebody has edited since it
\* was mirrored, the edited title or description is on its source card once
\* the step is over.
RescueBeforeDiscard ==
    [][\A e \in edits :
          (e.mid \in MasterIds(master) /\ e.mid \notin MasterIds(master'))
          => LET source == src'[SourceOf(e.mid)]
             IN IF "name" \in DOMAIN e.val THEN source.name = e.val.name
                ELSE source.desc = e.val.desc]_vars

\* the promote decision for a source card as the boards stand
Eligible(card) ==
    /\ ~\E l \in card.idLabels :
          Lower(TrelloLabels[TrelloLists[card.idList].idBoard][l])
              = Lower(COMPLETED_LABEL_NAME)
    /\ \/ Lower(TrelloLists[card.idList].name) = Lower(PRIORITY_LIST_NAME)
       \/ \E i \in DOMAIN card.checklists :
            /\ Lower(card.checklists[i].name) = Lower(PROGRESS_CHECKLIST_NAME)
            /\ Len(card.checklists[i].checkItems) > 0
            /\ 4 * Cardinality({k \in DOMAIN card.checklists[i].checkItems :
                                  card.checklists[i].checkItems[k].state = "complete"})
                 >= 3 * Len(card.checklists[i].checkItems)

ReplicasOf(list_cards, s) ==
    {i \in DOMAIN list_cards :
        LET md == extract_mirror_metadata(list_cards[i].desc)
        IN md # None /\ Get(md, "source_card", "") = s}

MirrorExact ==
    \A k \in DOMAIN MasterLists :
        LET list_cards == master[MasterLists[k]]
        IN /\ \A s \in DOMAIN src :
                TrelloLists[src[s].idList].idBoard = SourceBoards[k]
                => Cardinality(ReplicasOf(list_cards, s))
                     = IF Eligible(src[s]) THEN 1 ELSE 0
           /\ \A i \in DOMAIN list_cards :
                LET md == extract_mirror_metadata(list_cards[i].desc)
                IN /\ md # None
                   /\ <<list_cards[i].id, Get(md, "source_card", "")>> \in origin

\* C2: when a run ends, each master list holds exactly one replica of every
\* eligible card of its board and nothing else, and every replica decodes
\* to the card it was copied from.
ExactMirrorAfterRun ==
    [][(pc # "idle" /\ pc' = "idle") => MirrorExact']_vars

\* C3: when the mirroring of the first board starts, both master lists are
\* empty.
ClearedBeforeMirror ==
    (pc = "board" /\ li = 1) => \A l \in DOMAIN master : master[l] = <<>>

Rank(kind) == CASE kind = "sync" -> 1 [] kind = "delete" -> 2 [] OTHER -> 3

\* C4: within a run no reverse-sync call follows a delete of a master card
\* or the creation of a replica, and no delete follows a creation.
PhasesOrdered ==
    \A i, j \in DOMAIN phaseLog : i < j => Rank(phaseLog[i]) <= Rank(phaseLog[j])

PhasesOrderedWitness ==
    pc = "idle" /\ phaseLog = <<"sync", "delete", "create">>

HasCompletedLabel(input) ==
    \E l \in input.card.idLabels :
        /\ l \in DOMAIN input.board_labels
        /\ Lower(input.board_labels[l]) = Lower(COMPLETED_LABEL_NAME)

InPriorityList(input) ==
    Lower(TrelloLists[input.card.idList].name) = Lower(PRIORITY_LIST_NAME)

Done(checklist) ==
    Cardinality({k \in DOMAIN checklist.checkItems :
                    checklist.checkItems[k].state = "complete"})

QualifyingChecklist(input) ==
    \E i \in DOMAIN input.card.checklists :
        LET checklist == input.card.checklists[i]
        IN /\ Lower(checklist.name) = Lower(PROGRESS_CHECKLIST_NAME)
           /\ Len(checklist.checkItems) > 0
           /\ 4 * Done(checklist) >= 3 * Len(checklist.checkItems)

\* C5: a card with a label that the lookup names "completed", in any letter
\* case, is never promoted.
CompletedNeverPromoted ==
    (res # None /\ HasCompletedLabel(arg)) => ~res.promote

CompletedNeverPromotedWitness ==
    /\ res # None
    /\ HasCompletedLabel(arg)
    /\ InPriorityList(arg)
    /\ arg.listOk
    /\ \E i \in DOMAIN arg.card.checklists :
          /\ arg.card.checklists[i].name = PROGRESS_CHECKLIST_NAME
          /\ Done(arg.card.checklists[i]) = MaxItems
    /\ ~res.promote

\* C6: a card without a completed label whose list is named like the
\* priority list, in any letter case, is promoted.
PriorityPromoted ==
    (res # None /\ ~HasCompletedLabel(arg) /\ InPriorityList(arg)) => res.promote

\* C7: a card without a completed label and outside the priority list is
\* promoted exactly when one of its checklists has the progress name, in any
\* letter case, and at least three quarters of its items done.
ProgressPromotedIff ==
    (res # None /\ ~HasCompletedLabel(arg) /\ ~InPriorityList(arg))
    => (res.promote <=> QualifyingChecklist(arg))

\* C8: decoding the description built for (b, c, d) gives the record of b,
\* c and d.
RoundTrip ==
    (res # None /\ "metadata" \in DOMAIN res)
    => /\ res.metadata # None
       /\ res.metadata.source_board = arg.b
       /\ res.metadata.source_card = arg.c
       /\ res.metadata.original_desc = arg.d

\* C9: stripping the metadata off the description built for d gives d.
StripLaw ==
    (res # None /\ "clean_desc" \in DOMAIN res) => res.clean_desc = arg.d

Unmanaged(card) ==
    LET md == extract_mirror_metadata(card.desc)
    IN \/ \A i \in DOMAIN card.desc : card.desc[i] # MIRROR_MARKER
       \/ md = None
       \/ "source_board" \notin DOMAIN md
       \/ "source_card" \notin DOMAIN md

\* C10: the turn of the reverse-sync loop for a card without usable
\* provenance issues no call, changes no source card, no master card and not
\* the count, and the loop goes on with the next card, the next list or the
\* next phase.
SkipsUnmanaged ==
    [][(pc = "sync_card" /\ cards # <<>> /\ Unmanaged(Head(cards)))
       => /\ apiLog' = <<>>
          /\ src' = src
          /\ master' = master
          /\ synced_count' = synced_count
          /\ cards' = Tail(cards)
          /\ IF Tail(cards) # <<>> THEN pc' = "sync_card" /\ li' = li
             ELSE IF li = 1 THEN pc' = "sync_list" /\ li' = 2
             ELSE pc' = "clear" /\ li' = 1]_vars

\* the only reverse-sync step that issues no call is the turn for a skipped
\* card: here the run has read a master list and just skipped a card of it
SkipsUnmanagedWitness ==
    /\ phaseLog = <<"sync">>
    /\ apiLog = <<>>
    /\ pc \in {"sync_card", "sync_list", "clear"}
    /\ synced_count = 0
    /\ \E l \in DOMAIN master : \E i \in DOMAIN master[l] : Unmanaged(master[l][i])

\* the step of the run that is about to be taken is the next one of the
\* reverse-sync loop: the next card, the next list or the next phase
SyncLoopGoesOn ==
    /\ cards' = Tail(cards)
    /\ IF Tail(cards) # <<>> THEN pc' = "sync_card" /\ li' = li
       ELSE IF li = 1 THEN pc' = "sync_list" /\ li' = 2
       ELSE pc' = "clear" /\ li' = 1

SourceFetch(c) == c.m = "GET" /\ c.ep = "cards/{id}"

\* C11: when the fetch of the source card of a replica fails, the turn of
\* the reverse-sync loop issues no other call, changes no source card and no
\* master card, leaves the count as it is, and the loop goes on.
FetchFailureSkips ==
    [][(pc = "sync_card" /\ apiLog' # <<>> /\ SourceFetch(apiLog'[1]) /\ ~apiLog'[1].ok)
       => /\ Len(apiLog') = 1
          /\ src' = src
          /\ master' = master
          /\ synced_count' = synced_count
          /\ SyncLoopGoesOn]_vars

\* the fetch of the source of a replica that somebody had edited has just
\* failed
FetchFailureSkipsWitness ==
    /\ Len(apiLog) = 1
    /\ SourceFetch(apiLog[1])
    /\ ~apiLog[1].ok
    /\ \E e \in edits : SourceOf(e.mid) = apiLog[1].id

\* the description of the replica is the one mirror_card wrote for the
\* description the source card has now
Unedited(pair) ==
    pair.master_card.desc
        = MirrorDesc(PROPOSALS_BOARD_ID, pair.source.id, pair.source.desc, 1)

FieldUpdate(c) == c.m = "PUT" /\ c.ep = "cards/{id}"

\* C12: the reverse sync of a replica whose description nobody has edited,
\* and whose source description has not changed, sends no description to
\* the source card.
NoNeedlessDescWrite ==
    (res # None /\ Unedited(arg.pair))
    => \A i \in DOMAIN res.log :
          FieldUpdate(res.log[i]) => "desc" \notin DOMAIN res.log[i].data

NamedOnce(seq, name) == Cardinality({i \in DOMAIN seq : seq[i].name = name}) = 1

\* checklist mi of the replica and checklist ci of the source are the one
\* checklist of that name on either card
SameChecklist(pair, mi, ci) ==
    LET mc == pair.master_card.checklists
        sc == pair.source.checklists
    IN /\ mc[mi].name = sc[ci].name
       /\ NamedOnce(mc, mc[mi].name)
       /\ NamedOnce(sc, sc[ci].name)

\* item k of the one and item j of the other are the one item of that name
\* in either checklist
SameItem(pair, mi, ci, k, j) ==
    LET mitems == pair.master_card.checklists[mi].checkItems
        sitems == pair.source.checklists[ci].checkItems
    IN /\ SameChecklist(pair, mi, ci)
       /\ mitems[k].name = sitems[j].name
       /\ NamedOnce(mitems, mitems[k].name)
       /\ NamedOnce(sitems, sitems[j].name)

\* item j of checklist ci of the source has another state on the replica
Toggled(pair, ci, j) ==
    \E mi \in DOMAIN pair.master_card.checklists :
        \E k \in DOMAIN pair.master_card.checklists[mi].checkItems :
            /\ pair.master_card.checklists[mi].name = pair.source.checklists[ci].name
            /\ pair.master_card.checklists[mi].checkItems[k].name
                 = pair.source.checklists[ci].checkItems[j].name
            /\ pair.master_card.checklists[mi].checkItems[k].state
                 # pair.source.checklists[ci].checkItems[j].state

\* a source item whose state differs from the item of the same name in the
\* checklist of the same name on the replica has the replica's state
TogglesApplied ==
    LET before == arg.pair.source.checklists
        after == res.src[arg.pair.source.id].checklists
        mc == arg.pair.master_card.checklists
    IN \A mi \in DOMAIN mc : \A ci \in DOMAIN before :
          \A k \in DOMAIN mc[mi].checkItems : \A j \in DOMAIN before[ci].checkItems :
              (/\ SameItem(arg.pair, mi, ci, k, j)
               /\ mc[mi].checkItems[k].state # before[ci].checkItems[j].state)
              => after[ci].checkItems[j].state = mc[mi].checkItems[k].state

\* every other source item has the name and the state it had
OtherItemsKept ==
    LET before == arg.pair.source.checklists
        after == res.src[arg.pair.source.id].checklists
    IN \A ci \in DOMAIN before : \A j \in DOMAIN before[ci].checkItems :
          ~Toggled(arg.pair, ci, j) => after[ci].checkItems[j] = before[ci].checkItems[j]

\* every call of the reverse sync of the replica was answered with 200
AllAnswered == \A i \in DOMAIN res.log : res.log[i].ok

ItemNamesOf(checklist) ==
    {checklist.checkItems[j].name : j \in DOMAIN checklist.checkItems}

\* every item that only the replica has, in a checklist both cards have, is
\* in the source checklist with the replica's state
NewItemsAdded ==
    LET before == arg.pair.source.checklists
        after == res.src[arg.pair.source.id].checklists
        mc == arg.pair.master_card.checklists
    IN \A mi \in DOMAIN mc : \A ci \in DOMAIN before :
          SameChecklist(arg.pair, mi, ci)
          => \A k \in DOMAIN mc[mi].checkItems :
                mc[mi].checkItems[k].name \notin ItemNamesOf(before[ci])
                => \E j \in DOMAIN after[ci].checkItems :
                      /\ j > Len(before[ci].checkItems)
                      /\ after[ci].checkItems[j] = mc[mi].checkItems[k]

\* every item that only the source has is where it was, as it was
SourceOnlyItemsKept ==
    LET before == arg.pair.source.checklists
        after == res.src[arg.pair.source.id].checklists
        mc == arg.pair.master_card.checklists
    IN \A ci \in DOMAIN before : \A j \in DOMAIN before[ci].checkItems :
          (\A mi \in DOMAIN mc :
              mc[mi].name = before[ci].name
              => before[ci].checkItems[j].name \notin ItemNamesOf(mc[mi]))
          => /\ j \in DOMAIN after[ci].checkItems
             /\ after[ci].checkItems[j] = before[ci].checkItems[j]

\* no checklist and no item is taken off the source card, and no call asks
\* for it
NothingRemoved ==
    LET before == arg.pair.source.checklists
        after == res.src[arg.pair.source.id].checklists
    IN /\ Len(after) >= Len(before)
       /\ \A ci \in DOMAIN before :
             /\ after[ci].name = before[ci].name
             /\ Len(after[ci].checkItems) >= Len(before[ci].checkItems)
             /\ \A j \in DOMAIN before[ci].checkItems :
                   after[ci].checkItems[j].name = before[ci].checkItems[j].name
       /\ \A i \in DOMAIN res.log :
             res.log[i].m = "DELETE"
             => res.log[i].ep \notin {"checklists/{id}", "cards/{id}/checkItem/{id}",
                                      "cards/{id}/checklists/{id}"}

MemberCall(c) == c.ep \in {"cards/{id}/idMembers", "cards/{id}/idMembers/{id}"}

\* C15: after the reverse sync of a replica whose source fetch and field
\* update succeeded and whose member calls all succeeded, the source card
\* has exactly the members of the replica.
MembersReconciled ==
    (/\ res # None
     /\ res.ret
     /\ \A i \in DOMAIN res.log : MemberCall(res.log[i]) => res.log[i].ok)
    => res.src[arg.pair.source.id].idMembers = arg.pair.master_card.idMembers

\* one member was added and one taken off, while another call of the same
\* reverse sync failed
MembersReconciledWitness ==
    /\ res # None
    /\ res.ret
    /\ \E i \in DOMAIN res.log : ~res.log[i].ok
    /\ \A i \in DOMAIN res.log : MemberCall(res.log[i]) => res.log[i].ok
    /\ arg.pair.master_card.idMembers \ arg.pair.source.idMembers # {}
    /\ arg.pair.source.idMembers \ arg.pair.master_card.idMembers # {}
    /\ res.src[arg.pair.source.id].idMembers = arg.pair.master_card.idMembers

Urls(atts) == {atts[i].url : i \in DOMAIN atts}

\* the attachments the source had are the first attachments it has
AttachmentsKept ==
    LET before == arg.pair.source.attachments
        after == res.src[arg.pair.source.id].attachments
    IN /\ Len(after) >= Len(before)
       /\ \A i \in DOMAIN before : after[i] = before[i]

\* every URL of the replica that the source lacked is on the source once
MissingUrlsAddedOnce ==
    LET before == arg.pair.source.attachments
        after == res.src[arg.pair.source.id].attachments
    IN \A u \in Urls(arg.pair.master_card.attachments) \ (Urls(before) \cup {""}) :
          Cardinality({i \in DOMAIN after : after[i].url = u}) = 1

NoAttachmentDelete ==
    \A i \in DOMAIN res.log :
        res.log[i].m = "DELETE" => res.log[i].ep # "cards/{id}/attachments/{id}"

HumanComments(actions) ==
    LET texts == [i \in DOMAIN actions |-> actions[i].data.text]
    IN SelectSeq(texts, LAMBDA t : ~StartsWith(t, MIRROR_COMMENT_MARKER))

\* the source has its comments and, after them, one comment for each such
\* comment of the replica
CommentsAppended ==
    LET before == arg.pair.source.actions
        after == res.src[arg.pair.source.id].actions
        texts == HumanComments(arg.pair.master_card.actions)
    IN after = before \o [i \in DOMAIN texts |-> Comment(texts[i])]

\* no comment with the text of the system comment is sent to the source, and
\* the system comment of the replica starts with the marker
SystemCommentNotAppended ==
    /\ \A i \in DOMAIN res.log :
          res.log[i].ep = "cards/{id}/actions/comments"
          => res.log[i].data.text # MirrorComment("Proposals")
    /\ StartsWith(arg.pair.master_card.actions[1].data.text, MIRROR_COMMENT_MARKER)

LabelsPropagated ==
    (res # None /\ res.ret /\ AllAnswered)
    => res.src[arg.pair.source.id].idLabels = arg.pair.master_card.idLabels

Creation(c) == c.m = "POST" /\ c.ep = "cards"

\* the position of the creation of the replica among the calls of a step,
\* 0 when there is none
CreationAt(log) ==
    IF \E i \in DOMAIN log : Creation(log[i])
    THEN CHOOSE i \in DOMAIN log : Creation(log[i])
    ELSE 0

\* the calls of a step that say ep with the data field `field` equal to val
Asked(log, ep, field, val) ==
    {i \in DOMAIN log : log[i].ep = ep /\ log[i].data[field] = val}

\* the step of the run that is about to be taken is the next one of the
\* mirror loop: the next card, the other board or the end of the run
MirrorLoopGoesOn ==
    /\ cards' = Tail(cards)
    /\ IF Tail(cards) # <<>> THEN pc' = "mirror_card" /\ li' = li
       ELSE IF li = 1 THEN pc' = "board" /\ li' = 2
       ELSE pc' = "idle"

\* every sub-step of mirror_card for the card was attempted: a call for
\* every member, label, attachment with a URL and checklist, for every item
\* of every checklist that was created, and for the comment
AllSubStepsAttempted(card, log) ==
    /\ \A m \in card.idMembers : Asked(log, "cards/{id}/idMembers", "value", m) # {}
    /\ \A l \in card.idLabels : Asked(log, "cards/{id}/idLabels", "value", l) # {}
    /\ \A a \in DOMAIN card.attachments :
          Get(card.attachments[a], "url", "") # ""
          => Asked(log, "cards/{id}/attachments", "url", card.attachments[a].url) # {}
    /\ \A n \in DOMAIN card.checklists :
          \E i \in Asked(log, "cards/{id}/checklists", "name", card.checklists[n].name) :
              log[i].ok
              => \A k \in DOMAIN card.checklists[n].checkItems :
                    \E j \in Asked(log, "checklists/{id}/checkItems", "name",
                                    card.checklists[n].checkItems[k].name) : j > i
    /\ log # <<>>
    /\ log[Len(log)].ep = "cards/{id}/actions/comments"

\* C19: in a step of the mirror loop that created the replica, every
\* sub-step of the card is attempted whichever of its calls fail (but for
\* the items of a checklist that could not be created), and the loop goes
\* on with the next card, the other board or the end of the run.
FireAndContinue ==
    [][(pc = "mirror_card" /\ CreationAt(apiLog') # 0
                           /\ apiLog'[CreationAt(apiLog')].ok)
       => /\ AllSubStepsAttempted(Head(cards), apiLog')
          /\ MirrorLoopGoesOn]_vars

\* a call for the replica failed, a later call for it succeeded, and the
\* next card of the board is about to be looked at
FireAndContinueWitness ==
    /\ pc = "mirror_card"
    /\ CreationAt(apiLog) # 0
    /\ apiLog[CreationAt(apiLog)].ok
    /\ \E i, j \in DOMAIN apiLog :
          /\ CreationAt(apiLog) < i
          /\ i < j
          /\ ~apiLog[i].ok
          /\ apiLog[j].ok

\* the turn of the reverse-sync loop that was just taken was for a card with
\* usable provenance, its source fetch succeeded and its field update, if
\* there was one, did not fail
SyncedCard ==
    /\ ~Unmanaged(Head(cards))
    /\ apiLog' # <<>>
    /\ SourceFetch(apiLog'[1])
    /\ apiLog'[1].ok
    /\ \A i \in DOMAIN apiLog' : FieldUpdate(apiLog'[i]) => apiLog'[i].ok

\* C20: a turn of the reverse-sync loop adds one to the count exactly when
\* the card has usable provenance, its source fetch succeeded and its field
\* update did not fail, whatever the other calls answered; a turn of the
\* mirror loop adds one to its count exactly when the creation of the
\* replica succeeded, and when the creation fails no further call is made
\* for the card.
CountsAreExact ==
    [][/\ pc = "sync_card"
          => synced_count' = synced_count + (IF SyncedCard THEN 1 ELSE 0)
       /\ pc = "mirror_card"
          => LET at == CreationAt(apiLog')
                 created == at # 0 /\ apiLog'[at].ok
             IN /\ mirrored_count' = mirrored_count + (IF created THEN 1 ELSE 0)
                /\ (at # 0 /\ ~apiLog'[at].ok) => at = Len(apiLog')]_vars

\* a card was just counted as synced although a call of its reverse sync
\* that is neither the fetch nor the field update failed
CountsAreExactWitness ==
    /\ synced_count >= 1
    /\ apiLog # <<>>
    /\ SourceFetch(apiLog[1])
    /\ apiLog[1].ok
    /\ \E i \in DOMAIN apiLog : ~apiLog[i].ok /\ ~FieldUpdate(apiLog[i])

PhaseOf(p) ==
    CASE p \in {"sync_list", "sync_card"} -> "sync"
      [] p = "clear" -> "clear"
      [] p \in {"board", "mirror_card"} -> "mirror"
      [] OTHER -> "idle"

\* where the run is: the phase and the number of the list or board
Position == <<PhaseOf(pc), li>>

\* a run from its start to its end
Course ==
    << <<"idle", 1>>, <<"sync", 1>>, <<"sync", 2>>, <<"clear", 1>>, <<"clear", 2>>,
       <<"mirror", 1>>, <<"mirror", 2>>, <<"idle", 1>> >>

\* C21: whatever calls fail, a run leaves a list or a board only for the next
\* one of reverse sync of both master lists, clearing of both and mirroring of
\* both boards, in this order, and every run that has started ends, after the
\* mirroring of the second board.
RunNeverStopped ==
    /\ [][Position' # Position
            => \E k \in 1..(Len(Course) - 1) :
                  Course[k] = Position /\ Course[k + 1] = Position']_vars
    /\ (pc # "idle") ~> (pc = "idle")

RunNeverStoppedWitness ==
    /\ Position = <<"clear", 1>>
    /\ \E i \in DOMAIN apiLog : ~apiLog[i].ok

\* C22: a run ends with a status other than 0 when every read of a master
\* list and every read of a source board failed, and with 0 otherwise.
ProcessStatus ==
    [][(pc # "idle" /\ pc' = "idle")
         => IF down THEN ExitStatus # 0 ELSE ExitStatus = 0]_vars

\* the attachments of a card that have a URL, as the URLs
WithUrl(atts) ==
    LET kept == SelectSeq(atts, LAMBDA a : Get(a, "url", "") # "")
    IN [i \in DOMAIN kept |-> kept[i].url]

SystemComments(card) ==
    {i \in DOMAIN card.actions :
        /\ card.actions[i].type = "commentCard"
        /\ StartsWith(card.actions[i].data.text, MIRROR_COMMENT_MARKER)}

\* C23: when every call of the mirroring of a card succeeds, the master list
\* is as it was with the replica after it; the replica has the title and the
\* due date of the source, the description of the source followed by the
\* encoded provenance, its member ids and label ids, one attachment for each
\* attachment of the source that has a URL, in order, its checklists by name
\* in order with their items and states in order, and one system comment.
ReplicaFaithful ==
    (res # None /\ \A i \in DOMAIN res.log : res.log[i].ok)
    => /\ Len(res.list_cards) = Len(arg.list_cards) + 1
       /\ SubSeq(res.list_cards, 1, Len(arg.list_cards)) = arg.list_cards
       /\ LET replica == res.list_cards[Len(res.list_cards)]
              source == arg.card
              metadata == extract_mirror_metadata(replica.desc)
          IN /\ res.ret
             /\ replica.name = source.name
             /\ replica.due = source.due
             /\ replica.desc = source.desc \o <<NL, NL>>
                                 \o create_mirror_metadata(PROPOSALS_BOARD_ID, source.id,
                                                           source.desc, 1)
             /\ replica.idMembers = source.idMembers
             /\ replica.idLabels = source.idLabels
             /\ WithUrl(replica.attachments) = WithUrl(source.attachments)
             /\ Len(replica.attachments) = Len(WithUrl(source.attachments))
             /\ Len(replica.checklists) = Len(source.checklists)
             /\ \A k \in DOMAIN source.checklists :
                   /\ replica.checklists[k].name = source.checklists[k].name
                   /\ replica.checklists[k].checkItems = source.checklists[k].checkItems
             /\ Cardinality(SystemComments(replica)) = 1
             /\ Len(replica.actions) = 1

ReplicaFaithfulWitness ==
    /\ res # None
    /\ \A i \in DOMAIN res.log : res.log[i].ok
    /\ arg.list_cards # <<>>
    /\ Len(arg.card.checklists) = 2
    /\ arg.card.checklists[1].name = arg.card.checklists[2].name
    /\ \E i \in DOMAIN arg.card.checklists[1].checkItems :
          arg.card.checklists[1].checkItems[i].state = "complete"
    /\ Len(res.list_cards) = 2

\* C24: when a source card was edited since it was mirrored and its replica
\* was not, the source card has, after the reverse sync of the replica, the
\* title, description, due date, members and checklists the edit gave it.
SourceEditsKept ==
    (res # None /\ arg.pair \in SourceEditedPairs)
    => LET before == arg.pair.source
           after == res.src[before.id]
       IN /\ after.name = before.name
          /\ after.desc = before.desc
          /\ after.due = before.due
          /\ after.idMembers = before.idMembers
          /\ after.checklists = before.checklists

\* C25: as long as nobody has edited a card, every source card has the
\* members it had before the first run, whatever calls of the mirroring failed.
MembersKeptWithoutEdits ==
    humanOps = 0 => \A s \in DOMAIN src : src[s].idMembers = InitSrc[s].idMembers

\* a call that updates or creates a checklist item
ItemWrite(c) ==
    \/ c.m = "PUT" /\ c.ep = "cards/{id}/checkItem/{id}"
    \/ c.m = "POST" /\ c.ep = "checklists/{id}/checkItems"

\* C26: the reverse sync of a replica whose checklists are an exact copy of
\* the checklists of its source, names of checklists or of items repeated or
\* not, issues no update and no creation of a checklist item.
ExactCopyNoItemWrite ==
    (res # None /\ arg.pair \in ExactCopyPairs)
    => \A i \in DOMAIN res.log : ~ItemWrite(res.log[i])

\* the comments of a card that people wrote
ReaderComments(card) ==
    {i \in DOMAIN card.actions :
        /\ card.actions[i].type = "commentCard"
        /\ ~StartsWith(card.actions[i].data.text, MIRROR_COMMENT_MARKER)}

\* C27: over the runs, the one comment a reader wrote on a replica is appended
\* to the source card at most once.
CommentCopiedOnce ==
    \A s \in DOMAIN src : Cardinality(ReaderComments(src[s])) <= 1

\* a call of sync_checklists, sync_members, sync_attachments or sync_comments
\* that writes
SubSyncWrite(c) == c.m \in {"PUT", "POST", "DELETE"} /\ ~FieldUpdate(c)

FieldUpdateFailed == \E i \in DOMAIN res.log : FieldUpdate(res.log[i]) /\ ~res.log[i].ok

\* C28: when the update of the title, description and due date of the source
\* card fails, the reverse sync of the replica issues no write of a checklist
\* item, member, attachment or comment, leaves the source card as it was and
\* does not count the replica as synced.
NoSubSyncAfterFailedUpdate ==
    (res # None /\ FieldUpdateFailed)
    => /\ \A j \in DOMAIN res.log : ~SubSyncWrite(res.log[j])
       /\ res.src[arg.pair.source.id] = arg.pair.source
       /\ ~res.ret

NoSubSyncAfterFailedUpdateWitness ==
    /\ res # None
    /\ FieldUpdateFailed
    /\ arg.pair.master_card.idMembers # arg.pair.source.idMembers
    /\ Len(res.log) = 2

Write(c) == c.m \in {"PUT", "POST", "DELETE"}

\* the source card the provenance record of the replica names
NamedSource(card) == Get(extract_mirror_metadata(card.desc), "source_card", "")

\* every card of the master lists was there before, as it is, or is new
OnlyCreatedOrDeleted ==
    \A l \in DOMAIN master' : \A i \in DOMAIN master'[l] :
        \/ \E j \in DOMAIN master[l] : master[l][j] = master'[l][i]
        \/ \A k \in DOMAIN master : \A j \in DOMAIN master[k] :
              master[k][j].id # master'[l][i].id

\* C29: a step of the reverse sync leaves the master lists as they are and
\* writes to no card but the source card that the provenance record of the
\* replica at hand names; a step of the clearing or of the mirroring leaves
\* every source card as it is, writes to no source card, and changes the
\* master lists only by deleting cards or creating cards.
PhaseWritesDisjoint ==
    [][/\ pc \in {"sync_list", "sync_card"}
          => /\ master' = master
             /\ DOMAIN src' = DOMAIN src
             /\ \A s \in DOMAIN src :
                   src'[s] # src[s] => pc = "sync_card" /\ s = NamedSource(Head(cards))
             /\ \A i \in DOMAIN apiLog' :
                   Write(apiLog'[i])
                   => pc = "sync_card" /\ apiLog'[i].id = NamedSource(Head(cards))
       /\ pc \in {"clear", "board", "mirror_card"}
          => /\ src' = src
             /\ \A i \in DOMAIN apiLog' :
                   Write(apiLog'[i]) => apiLog'[i].id \notin DOMAIN src
             /\ OnlyCreatedOrDeleted]_vars

PhaseWritesDisjointWitness ==
    /\ pc = "idle"
    /\ phaseLog = <<"sync", "delete", "create">>
    /\ \E s \in DOMAIN src : src[s].name = "Renamed"

\* the card carries a label that its board names completed
CarriesCompleted(card) ==
    \E l \in card.idLabels :
        Lower(TrelloLabels[TrelloLists[card.idList].idBoard][l])
            = Lower(COMPLETED_LABEL_NAME)

\* C30: the mirroring creates no replica of a source card that carries a
\* label named completed, whether the read of the labels of the board was
\* answered or not.
CompletedNeverMirrored ==
    [][(pc = "mirror_card" /\ CarriesCompleted(Head(cards)))
         => \A i \in DOMAIN apiLog' : ~Creation(apiLog'[i])]_vars

====
